---------------------------- MODULE Spec2Model ----------------------------
(***************************************************************************)
(* The two notebooks of src/chemistry as state machines.                   *)
(*                                                                         *)
(*   ParticleHoleTransformation.ipynb  (kernel "PH")                       *)
(*   QubitMappings.ipynb               (kernel "QM")                       *)
(*                                                                         *)
(* Each notebook is a straight-line Python program run top to bottom in    *)
(* its own kernel; the two kernels share nothing and are interleaved.      *)
(* Every statement of a code cell is one step.  The calls into Qiskit      *)
(* Aqua / Chemistry are not code of the repository: a call is modelled by  *)
(* what the notebook passes to it, what it binds, and the output the       *)
(* notebook's "outputs" field records for it.  Any library call may raise. *)
(*                                                                         *)
(* Numbers.  Python floats are printed with up to 17 significant digits.   *)
(* A number is kept as sign and magnitude in two decimal limbs,            *)
(*      value = s * (hi * 10^9 + lo) * 10^-17,   0 <= lo < 10^9,           *)
(* which holds every recorded value to 17 decimal places within 32-bit     *)
(* integers.                                                               *)
(***************************************************************************)
EXTENDS Integers, Sequences, FiniteSets, TLC

---------------------------------------------------------------------------
(* Decimal numbers in two limbs                                            *)

Limb == 1000 * 1000 * 1000

N(s, hi, lo) == [s |-> s, hi |-> hi, lo |-> lo]

\* A name that is not bound to a number yet.
None == N(0, 0, 0)

Zero == N(1, 0, 0)

MagLt(a, b) == a.hi < b.hi \/ (a.hi = b.hi /\ a.lo < b.lo)

MagAdd(a, b) ==
    LET lo == a.lo + b.lo
    IN  IF lo >= Limb THEN [hi |-> a.hi + b.hi + 1, lo |-> lo - Limb]
                      ELSE [hi |-> a.hi + b.hi, lo |-> lo]

\* a - b for magnitudes with b <= a
MagSub(a, b) ==
    IF a.lo >= b.lo THEN [hi |-> a.hi - b.hi, lo |-> a.lo - b.lo]
                    ELSE [hi |-> a.hi - b.hi - 1, lo |-> a.lo + Limb - b.lo]

Norm(s, m) == IF m.hi = 0 /\ m.lo = 0 THEN Zero ELSE N(s, m.hi, m.lo)

NumNeg(a) == Norm(-a.s, a)

NumAbs(a) == N(1, a.hi, a.lo)

NumAdd(a, b) ==
    IF a.s = b.s THEN Norm(a.s, MagAdd(a, b))
    ELSE IF MagLt(a, b) THEN Norm(b.s, MagSub(b, a))
    ELSE Norm(a.s, MagSub(a, b))

NumSub(a, b) == NumAdd(a, NumNeg(b))

NumLeq(a, b) ==
    IF a.s # b.s THEN a.s < b.s
    ELSE IF a.s = 1 THEN ~MagLt(b, a)
    ELSE ~MagLt(a, b)

\* |a - b| <= tol
Within(a, b, tol) == NumLeq(NumAbs(NumSub(a, b)), tol)

---------------------------------------------------------------------------
(* Fixed point for the spectrum: integers in units of 10^-8               *)

Half == 100 * 100

\* a number rounded to units of 10^-8
Fix(a) == a.s * (a.hi + (IF 2 * a.lo >= Limb THEN 1 ELSE 0))

\* units of 10^-8 back to a number
Unfix(x) == IF x < 0 THEN Norm(-1, [hi |-> -x, lo |-> 0])
                     ELSE Norm(1, [hi |-> x, lo |-> 0])

Abs(x) == IF x < 0 THEN -x ELSE x

\* x * y / 10^8 for 0 <= x, y < 4 * 10^8, without leaving 32 bits
MulFix(x, y) ==
    LET xh == x \div Half
        xl == x % Half
        yh == y \div Half
        yl == y % Half
    IN  xh * yh + ((xh * yl + xl * yh) \div Half) + ((xl * yl) \div (Half * Half))

RECURSIVE SqrtSearch(_, _, _)
\* the largest r in lo..hi with r * r / 10^8 <= v
SqrtSearch(v, lo, hi) ==
    IF lo >= hi THEN lo
    ELSE LET mid == (lo + hi + 1) \div 2
         IN  IF MulFix(mid, mid) <= v THEN SqrtSearch(v, mid, hi)
                                      ELSE SqrtSearch(v, lo, mid - 1)

SqrtFix(v) == SqrtSearch(v, 0, 4 * Half * Half - 1)

---------------------------------------------------------------------------
(* Pauli operators on n qubits, and the matrix a list of them sums to     *)

\* one weighted Pauli string: label[j] in {"I","X","Y","Z"}
T(label, coeff) == [label |-> label, coeff |-> coeff]

Qubits(t) == DOMAIN t.label

Basis(n) == [1..n -> {0, 1}]

\* the basis state a Pauli string sends b to: X and Y flip the bit
Flip(t, b) == [j \in Qubits(t) |->
                 IF t.label[j] \in {"X", "Y"} THEN 1 - b[j] ELSE b[j]]

IsDiagonal(t) == \A j \in Qubits(t) : t.label[j] \in {"I", "Z"}

\* the sign of <Flip(t,b)| P |b>: Z and Y give -1 on a set bit, and each
\* pair of Y gives i * i = -1 (every string here holds an even number of Y)
Phase(t, b) ==
    LET minus == Cardinality({j \in Qubits(t) : t.label[j] \in {"Y", "Z"} /\ b[j] = 1})
        ys    == Cardinality({j \in Qubits(t) : t.label[j] = "Y"})
    IN  IF (minus + (ys \div 2)) % 2 = 0 THEN 1 ELSE -1

RECURSIVE SumOver(_, _, _, _)
\* the matrix element <to| H |from> of H = sum of paulis[k..], in 10^-8
SumOver(paulis, k, from, to) ==
    IF k > Len(paulis) THEN 0
    ELSE (IF Flip(paulis[k], from) = to
             THEN Phase(paulis[k], from) * Fix(paulis[k].coeff) ELSE 0)
         + SumOver(paulis, k + 1, from, to)

Element(paulis, from, to) == SumOver(paulis, 1, from, to)

\* the states b is coupled to by a term that is not diagonal
Partners(paulis, b) ==
    {Flip(paulis[k], b) : k \in {i \in 1..Len(paulis) : ~IsDiagonal(paulis[i])}}

BlockRootUpper(a, d, o) ==
    LET h == (a - d) \div 2
    IN  ((a + d) \div 2) + SqrtFix(MulFix(Abs(h), Abs(h)) + MulFix(Abs(o), Abs(o)))

\* the lower eigenvalue of the symmetric block [[a, o], [o, d]]
BlockRoot(a, d, o) ==
    LET h == (a - d) \div 2
    IN  ((a + d) \div 2) - SqrtFix(MulFix(Abs(h), Abs(h)) + MulFix(Abs(o), Abs(o)))

Min(S) == CHOOSE x \in S : \A y \in S : x <= y

\* The smallest eigenvalue of H = sum of paulis, in units of 10^-8.  In
\* every operator the notebooks solve the terms that are not diagonal all
\* flip the same qubits, so H falls into 1x1 and 2x2 blocks.
LowestEigenvalue(paulis) ==
    LET n == Len(paulis[1].label)
        E(b) == LET ps == Partners(paulis, b)
                IN  IF ps = {} THEN Element(paulis, b, b)
                    ELSE LET c == CHOOSE c \in ps : TRUE
                         IN  BlockRoot(Element(paulis, b, b),
                                       Element(paulis, c, c),
                                       Element(paulis, b, c))
    IN  Min({E(b) : b \in Basis(n)})

---------------------------------------------------------------------------
(* What the notebooks record                                               *)

\* QubitMappings, cell 4, stdout: print(qubit_op.print_operators()) for the
\* operator of each mapping, after to_matrix() and chop(10**-10).
PaulisJordanWigner ==
<<
    T(<<"I", "I", "I", "I">>, N(-1, 81054798, 627609910)),
    T(<<"I", "I", "I", "Z">>, N(1, 17218394, 273085635)),
    T(<<"I", "I", "Z", "I">>, N(-1, 22575350, 251540605)),
    T(<<"I", "I", "Z", "Z">>, N(1, 12091263, 358559995)),
    T(<<"I", "Z", "I", "I">>, N(1, 17218394, 273085635)),
    T(<<"I", "Z", "I", "Z">>, N(1, 16892754, 48859007)),
    T(<<"I", "Z", "Z", "I">>, N(1, 16614543, 338049342)),
    T(<<"I", "Z", "Z", "Z">>, N(-1, 0, 8)),
    T(<<"X", "X", "X", "X">>, N(1, 4523279, 979489343)),
    T(<<"X", "X", "Y", "Y">>, N(1, 4523279, 979489343)),
    T(<<"Y", "Y", "X", "X">>, N(1, 4523279, 979489343)),
    T(<<"Y", "Y", "Y", "Y">>, N(1, 4523279, 979489343)),
    T(<<"Z", "I", "I", "I">>, N(-1, 22575350, 251540610)),
    T(<<"Z", "I", "I", "Z">>, N(1, 16614543, 338049342)),
    T(<<"Z", "I", "Z", "I">>, N(1, 17464343, 142442207)),
    T(<<"Z", "Z", "I", "I">>, N(1, 12091263, 358559991)),
    T(<<"Z", "Z", "I", "Z">>, N(-1, 0, 2)),
    T(<<"Z", "Z", "Z", "I">>, N(-1, 0, 7)),
    T(<<"Z", "Z", "Z", "Z">>, N(-1, 0, 3))
>>

PaulisParity ==
<<
    T(<<"I", "I", "I", "I">>, N(-1, 81054798, 627609910)),
    T(<<"I", "I", "I", "Z">>, N(1, 17218394, 273085635)),
    T(<<"I", "I", "Z", "I">>, N(1, 12091263, 358559990)),
    T(<<"I", "I", "Z", "Z">>, N(-1, 22575350, 251540610)),
    T(<<"I", "X", "I", "X">>, N(1, 4523279, 979489343)),
    T(<<"I", "X", "Z", "X">>, N(-1, 4523279, 979489343)),
    T(<<"I", "Z", "I", "I">>, N(-1, 0, 7)),
    T(<<"I", "Z", "I", "Z">>, N(1, 16614543, 338049345)),
    T(<<"I", "Z", "Z", "I">>, N(1, 17218394, 273085635)),
    T(<<"I", "Z", "Z", "Z">>, N(1, 16892754, 48859007)),
    T(<<"Z", "I", "I", "I">>, N(-1, 0, 3)),
    T(<<"Z", "I", "I", "Z">>, N(-1, 0, 6)),
    T(<<"Z", "I", "Z", "I">>, N(1, 12091263, 358559990)),
    T(<<"Z", "I", "Z", "Z">>, N(-1, 0, 2)),
    T(<<"Z", "X", "I", "X">>, N(1, 4523279, 979489343)),
    T(<<"Z", "X", "Z", "X">>, N(-1, 4523279, 979489343)),
    T(<<"Z", "Z", "I", "I">>, N(-1, 22575350, 251540610)),
    T(<<"Z", "Z", "I", "Z">>, N(1, 16614543, 338049342)),
    T(<<"Z", "Z", "Z", "Z">>, N(1, 17464343, 142442207))
>>

PaulisBravyiKitaev ==
<<
    T(<<"I", "I", "I", "I">>, N(-1, 81054798, 627609910)),
    T(<<"I", "I", "I", "Z">>, N(1, 17218394, 273085635)),
    T(<<"I", "I", "Z", "I">>, N(1, 12091263, 358559990)),
    T(<<"I", "I", "Z", "Z">>, N(-1, 22575350, 251540610)),
    T(<<"I", "X", "I", "X">>, N(1, 4523279, 979489343)),
    T(<<"I", "X", "Z", "X">>, N(-1, 4523279, 979489343)),
    T(<<"I", "Z", "I", "I">>, N(1, 17218394, 273085635)),
    T(<<"I", "Z", "I", "Z">>, N(1, 16892754, 48859007)),
    T(<<"I", "Z", "Z", "I">>, N(-1, 0, 7)),
    T(<<"I", "Z", "Z", "Z">>, N(1, 16614543, 338049345)),
    T(<<"Z", "I", "I", "I">>, N(-1, 0, 3)),
    T(<<"Z", "I", "I", "Z">>, N(-1, 0, 6)),
    T(<<"Z", "I", "Z", "I">>, N(1, 12091263, 358559990)),
    T(<<"Z", "I", "Z", "Z">>, N(-1, 0, 2)),
    T(<<"Z", "X", "I", "X">>, N(1, 4523279, 979489343)),
    T(<<"Z", "X", "Z", "X">>, N(-1, 4523279, 979489343)),
    T(<<"Z", "Z", "I", "Z">>, N(1, 17464343, 142442207)),
    T(<<"Z", "Z", "Z", "I">>, N(-1, 22575350, 251540610)),
    T(<<"Z", "Z", "Z", "Z">>, N(1, 16614543, 338049342))
>>

\* what print_operators() shows for the operator mapped by map_type from
\* the PyQuante integrals (QubitMappings prints no other operator, and
\* ParticleHoleTransformation has its print_operators() commented out)
RecordedPaulis(driver, ph, map_type) ==
    CASE driver = "PYQUANTE" /\ ~ph /\ map_type = "JORDAN_WIGNER" -> PaulisJordanWigner
      [] driver = "PYQUANTE" /\ ~ph /\ map_type = "PARITY"        -> PaulisParity
      [] driver = "PYQUANTE" /\ ~ph /\ map_type = "BRAVYI_KITAEV" -> PaulisBravyiKitaev

\* ret['energy'] of ExactEigensolver(qubit_op, k=1).run()
RecordedExactEnergy(driver, ph, map_type) ==
    CASE driver = "PYQUANTE" /\ ~ph /\ map_type = "JORDAN_WIGNER" -> N(-1, 185727507, 663787160)
      [] driver = "PYQUANTE" /\ ~ph /\ map_type = "PARITY"        -> N(-1, 185727507, 663787380)
      [] driver = "PYQUANTE" /\ ~ph /\ map_type = "BRAVYI_KITAEV" -> N(-1, 185727507, 663787960)
      [] driver = "PYSCF" /\ ~ph /\ map_type = "JORDAN_WIGNER"    -> N(-1, 185727503, 20237950)
      [] driver = "PYSCF" /\ ph /\ map_type = "JORDAN_WIGNER"     -> N(-1, 2030703, 899939618)

\* results['eigvals'][0].real of VQE(...).run(quantum_instance)
RecordedVQEEnergy(driver, ph, map_type) ==
    CASE driver = "PYQUANTE" /\ ~ph /\ map_type = "JORDAN_WIGNER" -> N(-1, 185708932, 86726470)
      [] driver = "PYQUANTE" /\ ~ph /\ map_type = "PARITY"        -> N(-1, 185726867, 605927850)
      [] driver = "PYQUANTE" /\ ~ph /\ map_type = "BRAVYI_KITAEV" -> N(-1, 185727507, 635405000)
      [] driver = "PYSCF" /\ ph /\ map_type = "JORDAN_WIGNER"     -> N(-1, 2030703, 877171170)

\* molecule.hf_energy - molecule.nuclear_repulsion_energy, as printed
RecordedHartreeFock(driver) ==
    CASE driver = "PYSCF" -> N(-1, 183696799, 120298420)
      [] driver = "PYQUANTE" -> None

\* the scalar particle_hole_transformation(num_particles=2) returns
RecordedEnergyShift(driver) ==
    CASE driver = "PYSCF" -> N(1, 183696799, 120298460)
      [] driver = "PYQUANTE" -> None

---------------------------------------------------------------------------
(* Parameters the notebooks pass                                           *)

\* threshold=0.00000001 of ferOp.mapping(...)
MappingThreshold == N(1, 1, 0)

\* 10**-10 of qubit_op.chop(...)
ChopThreshold == N(1, 0, 10000000)

NumParticles == 2

---------------------------------------------------------------------------
(* The objects of a kernel: a heap of records, named by their index; the   *)
(* reference 0 names no object                                             *)

Obj(type, born, src, driver, ph, map_type, threshold, matrix, chopped) ==
    [type |-> type, born |-> born, src |-> src, driver |-> driver, ph |-> ph,
     map_type |-> map_type, threshold |-> threshold, matrix |-> matrix,
     chopped |-> chopped]

\* the result of a call that allocates: the heap and the new reference
Alloc(h, o) == [heap |-> Append(h, o), ref |-> Len(h) + 1]

\* molecule = driver.run(): the QMolecule with the integrals of H2 at
\* 0.735 Angstrom in STO-3G, from the driver named
driver_run(h, born, driver) ==
    Alloc(h, Obj("QMolecule", born, 0, driver, FALSE, "", None, FALSE, None))

\* FermionicOperator(h1=molecule.one_body_integrals, h2=molecule.two_body_integrals)
FermionicOperator(h, born, molecule) ==
    Alloc(h, Obj("FermionicOperator", born, molecule, h[molecule].driver, FALSE,
                 "", None, FALSE, None))

\* ferOp.mapping(map_type=..., threshold=...): a new qubit operator
mapping(h, born, self, map_type, threshold) ==
    Alloc(h, Obj("Operator", born, self, h[self].driver, h[self].ph,
                 map_type, threshold, FALSE, None))

\* a mutation: the transformation done in place, on the operator itself
particle_hole_transformation_in_place(h, born, self, num_particles) ==
    [heap |-> [h EXCEPT ![self].ph = TRUE], ref |-> self,
     shift |-> RecordedEnergyShift(h[self].driver)]

\* a mutation: the shift returned with the sign of the energy removed
particle_hole_transformation_signed(h, born, self, num_particles) ==
    Alloc(h, [h[self] EXCEPT !.ph = TRUE, !.born = born, !.src = h[self].src])
      @@ [shift |-> NumNeg(RecordedEnergyShift(h[self].driver))]

\* newferOp, energy_shift = ferOp.particle_hole_transformation(num_particles=2):
\* a new fermionic operator over the same integrals, and a scalar
particle_hole_transformation(h, born, self, num_particles) ==
    Alloc(h, [h[self] EXCEPT !.ph = TRUE, !.born = born, !.src = h[self].src])
      @@ [shift |-> RecordedEnergyShift(h[self].driver)]

\* a mutation: to_matrix() that returns the matrix and leaves the operator
to_matrix_pure(h, self) == h

\* qubit_op.to_matrix(): converts the operator in place
to_matrix(h, self) == [h EXCEPT ![self].matrix = TRUE]

\* qubit_op.chop(threshold): in place
chop(h, self, threshold) == [h EXCEPT ![self].chopped = threshold]

\* qubit_op.print_operators(): the Pauli list of the operator
print_operators(h, self) ==
    RecordedPaulis(h[self].driver, h[self].ph, h[self].map_type)

\* ExactEigensolver(qubit_op, k=1).run()['energy']
ExactEigensolver_run(h, self) ==
    RecordedExactEnergy(h[self].driver, h[self].ph, h[self].map_type)

\* a mutation: VQE that returns before the optimizer has run, its
\* eigenvalue still at the initial 0
VQE_run_unconverged(h, self) == Zero

\* VQE(qubit_op, RY(num_qubits, 5, ...), L_BFGS_B(maxfun=1000, ...), 'matrix')
\*   .run(quantum_instance)['eigvals'][0].real
VQE_run(h, self) ==
    RecordedVQEEnergy(h[self].driver, h[self].ph, h[self].map_type)

\* molecule.hf_energy - molecule.nuclear_repulsion_energy
hf_electronic(h, molecule) == RecordedHartreeFock(h[molecule].driver)

---------------------------------------------------------------------------
(* The programs: the statements of the code cells, in cell order           *)

Notebooks == {"PH", "QM"}

S(line, op, target, self, arg, label) ==
    [line |-> line, op |-> op, target |-> target, self |-> self, arg |-> arg,
     label |-> label]

\* a mutation: the driver run again ahead of the transformation
ProgramPHDriverTwice == <<
    S(52, "driver_run", "molecule", "", "PYSCF", ""),
    S(77, "FermionicOperator", "ferOp", "molecule", "", ""),
    S(78, "mapping", "qubitOp_jw", "ferOp", "JORDAN_WIGNER", ""),
    S(79, "chop", "", "qubitOp_jw", "", ""),
    S(83, "exact_run", "ret", "qubitOp_jw", "", ""),
    S(87, "print_exact", "", "", "", "The exact ground state energy is"),
    S(52, "driver_run", "molecule", "", "PYSCF", ""),
    S(88, "print_hf", "", "molecule", "", "The Hartree Fock Electron Energy is") >>

\* ParticleHoleTransformation.ipynb, cells 3 to 6; each statement with the
\* line of the notebook file that holds it
ProgramPH == <<
    S(52, "driver_run", "molecule", "", "PYSCF", ""),
    S(77, "FermionicOperator", "ferOp", "molecule", "", ""),
    S(78, "mapping", "qubitOp_jw", "ferOp", "JORDAN_WIGNER", ""),
    S(79, "chop", "", "qubitOp_jw", "", ""),
    S(83, "exact_run", "ret", "qubitOp_jw", "", ""),
    S(87, "print_exact", "", "", "", "The exact ground state energy is"),
    S(88, "print_hf", "", "molecule", "", "The Hartree Fock Electron Energy is"),
    S(115, "particle_hole_transformation", "newferOp", "ferOp", "", ""),
    S(116, "print_shift", "", "", "", "Energy shift is"),
    S(117, "mapping", "newqubitOp_jw", "newferOp", "JORDAN_WIGNER", ""),
    S(118, "chop", "", "newqubitOp_jw", "", ""),
    S(121, "exact_run", "ret", "newqubitOp_jw", "", ""),
    S(124, "print_exact", "", "", "", "The exact ground state energy in PH basis is"),
    S(125, "print_exact_shifted", "", "", "", "(with energy_shift)"),
    S(167, "vqe_run", "results", "newqubitOp_jw", "", ""),
    S(168, "print_vqe", "", "", "", "Minimum value"),
    S(169, "print_vqe_shifted", "", "", "", "Minimum value"),
    S(170, "print_params", "", "", "", "Parameters") >>

\* QubitMappings.ipynb, cells 2 to 5; "endfor" is the end of the indented
\* body of the "for" before it
ProgramQM == <<
    S(49, "driver_run", "molecule", "", "PYQUANTE", ""),
    S(61, "FermionicOperator", "ferOp", "molecule", "", ""),
    S(62, "mapping", "qubitOp_jw", "ferOp", "JORDAN_WIGNER", ""),
    S(63, "mapping", "qubitOp_pa", "ferOp", "PARITY", ""),
    S(64, "mapping", "qubitOp_bk", "ferOp", "BRAVYI_KITAEV", ""),
    S(150, "list", "qubit_ops", "", "", ""),
    S(154, "for", "qubit_op", "qubit_ops", "", ""),
    S(155, "to_matrix", "", "qubit_op", "", ""),
    S(156, "chop", "", "qubit_op", "", ""),
    S(159, "print_operators", "", "qubit_op", "", ""),
    S(163, "exact_run", "ret", "qubit_op", "", ""),
    S(164, "print_exact", "", "", "", "The exact ground state energy using {} mapping is"),
    S(164, "endfor", "", "", "", ""),
    S(190, "for", "qubit_op", "qubit_ops", "", ""),
    S(204, "vqe_run", "results", "qubit_op", "", ""),
    S(206, "print_vqe", "", "", "", "Ground state energy using {}"),
    S(206, "endfor", "", "", "", "") >>

Program(nb) == IF nb = "PH" THEN ProgramPH ELSE ProgramQM

\* the statements that call into the library
LibraryCalls ==
    {"driver_run", "FermionicOperator", "mapping", "chop", "to_matrix",
     "print_operators", "exact_run", "particle_hole_transformation", "vqe_run"}

\* the "endfor" that closes the "for" at index k
EndOf(prog, k) ==
    CHOOSE j \in (k + 1)..Len(prog) :
        /\ prog[j].op = "endfor"
        /\ \A i \in (k + 1)..(j - 1) : prog[i].op # "endfor"

\* the "for" that the "endfor" at index k closes
ForOf(prog, k) ==
    CHOOSE j \in 1..(k - 1) :
        /\ prog[j].op = "for"
        /\ \A i \in (j + 1)..(k - 1) : prog[i].op # "for"

---------------------------------------------------------------------------
(* State                                                                   *)

VARIABLES
    pc,      \* pc[nb]: the index of the next statement of notebook nb
    env,     \* env[nb]: the kernel's names and what they are bound to
    heap,    \* heap[nb]: the kernel's objects
    iter,    \* iter[nb]: how many elements the running for loop has taken
    out,     \* out[nb]: what the notebook has printed, in order
    log,     \* log[nb]: the library calls made, in order (history)
    raised   \* raised[nb]: the statement whose call raised, "" if none

vars == <<pc, env, heap, iter, out, log, raised>>

\* a number a name is bound to, with the call (index in log) it came from
Val(val, from) == [val |-> val, from |-> from]

Unbound == Val(None, 0)

EmptyEnv ==
    [molecule |-> 0, ferOp |-> 0, newferOp |-> 0,
     qubitOp_jw |-> 0, qubitOp_pa |-> 0, qubitOp_bk |-> 0,
     newqubitOp_jw |-> 0, qubit_op |-> 0, name |-> "",
     qubit_ops |-> <<>>, energy_shift |-> Unbound, ret |-> Unbound,
     results |-> Unbound]

\* one printed line: what it shows, for which mapping, the number or the
\* Pauli list, and the call its value came from
Line(kind, name, value, paulis, from) ==
    [kind |-> kind, name |-> name, value |-> value, paulis |-> paulis, from |-> from]

\* one library call: the statement and loop round that made it, the object
\* it was made on as it then was, and whether it returned
Call(nb, self, ok) ==
    [call |-> Program(nb)[pc[nb]].op, pc |-> pc[nb], iter |-> iter[nb],
     self |-> self,
     obj |-> IF self = 0 THEN Obj("", 0, 0, "", FALSE, "", None, FALSE, None)
             ELSE heap[nb][self],
     ok |-> ok]

Init ==
    /\ pc = [nb \in Notebooks |-> 1]
    /\ env = [nb \in Notebooks |-> EmptyEnv]
    /\ heap = [nb \in Notebooks |-> <<>>]
    /\ iter = [nb \in Notebooks |-> 0]
    /\ out = [nb \in Notebooks |-> <<>>]
    /\ log = [nb \in Notebooks |-> <<>>]
    /\ raised = [nb \in Notebooks |-> ""]

Stmt(nb) == Program(nb)[pc[nb]]

\* a mutation: the exception of a failed call caught and the run carried on
RunningAfterError(nb) == pc[nb] <= Len(Program(nb))

\* Run All goes on while statements are left and none has raised: the
\* notebooks hold no try/except, so the first exception ends the run
Running(nb) == raised[nb] = "" /\ pc[nb] <= Len(Program(nb))

At(nb, op) == Running(nb) /\ Stmt(nb).op = op

\* the object the statement's receiver names (0 when it has none)
Self(nb) == IF Stmt(nb).self = "" THEN 0 ELSE env[nb][Stmt(nb).self]

Advance(nb) == pc' = [pc EXCEPT ![nb] = pc[nb] + 1]

Logged(nb) == log' = [log EXCEPT ![nb] = Append(log[nb], Call(nb, Self(nb), TRUE))]

Printed(nb, line) == out' = [out EXCEPT ![nb] = Append(out[nb], line)]

\* the index the call being made gets in log
Now(nb) == Len(log[nb]) + 1

\* a mutation: the shift added where the notebook subtracts it
ShiftedBySum(energy, energy_shift) == NumAdd(energy, energy_shift)

\* ret['energy'] - energy_shift, results['eigvals'][0].real - energy_shift
Shifted(energy, energy_shift) == NumSub(energy, energy_shift)

---------------------------------------------------------------------------
(* The statements                                                          *)

\* molecule = driver.run()
DriverRun(nb) ==
    /\ At(nb, "driver_run")
    /\ LET r == driver_run(heap[nb], Now(nb), Stmt(nb).arg)
       IN  /\ heap' = [heap EXCEPT ![nb] = r.heap]
           /\ env' = [env EXCEPT ![nb][Stmt(nb).target] = r.ref]
    /\ Logged(nb) /\ Advance(nb)
    /\ UNCHANGED <<iter, out, raised>>

\* ferOp = FermionicOperator(h1=..., h2=...)
NewFermionicOperator(nb) ==
    /\ At(nb, "FermionicOperator")
    /\ LET r == FermionicOperator(heap[nb], Now(nb), Self(nb))
       IN  /\ heap' = [heap EXCEPT ![nb] = r.heap]
           /\ env' = [env EXCEPT ![nb][Stmt(nb).target] = r.ref]
    /\ Logged(nb) /\ Advance(nb)
    /\ UNCHANGED <<iter, out, raised>>

\* qubitOp = ferOp.mapping(map_type=..., threshold=0.00000001)
Mapping(nb) ==
    /\ At(nb, "mapping")
    /\ LET r == mapping(heap[nb], Now(nb), Self(nb), Stmt(nb).arg, MappingThreshold)
       IN  /\ heap' = [heap EXCEPT ![nb] = r.heap]
           /\ env' = [env EXCEPT ![nb][Stmt(nb).target] = r.ref]
    /\ Logged(nb) /\ Advance(nb)
    /\ UNCHANGED <<iter, out, raised>>

\* qubit_op.chop(10**-10)
Chop(nb) ==
    /\ At(nb, "chop")
    /\ heap' = [heap EXCEPT ![nb] = chop(heap[nb], Self(nb), ChopThreshold)]
    /\ Logged(nb) /\ Advance(nb)
    /\ UNCHANGED <<env, iter, out, raised>>

\* qubit_op.to_matrix()
ToMatrix(nb) ==
    /\ At(nb, "to_matrix")
    /\ heap' = [heap EXCEPT ![nb] = to_matrix(heap[nb], Self(nb))]
    /\ Logged(nb) /\ Advance(nb)
    /\ UNCHANGED <<env, iter, out, raised>>

\* qubit_ops = [(qubitOp_jw, 'jordan wigner'), (qubitOp_pa, 'parity'),
\*              (qubitOp_bk, 'bravyi-kitaev')]: a list of references
BuildList(nb) ==
    /\ At(nb, "list")
    /\ env' = [env EXCEPT ![nb].qubit_ops =
                 << [op |-> env[nb].qubitOp_jw, name |-> "jordan wigner"],
                    [op |-> env[nb].qubitOp_pa, name |-> "parity"],
                    [op |-> env[nb].qubitOp_bk, name |-> "bravyi-kitaev"] >>]
    /\ Advance(nb)
    /\ UNCHANGED <<heap, iter, out, log, raised>>

\* for qubit_op, name in qubit_ops: take the next element or leave the loop
ForNext(nb) ==
    /\ At(nb, "for")
    /\ IF iter[nb] < Len(env[nb].qubit_ops)
          THEN /\ iter' = [iter EXCEPT ![nb] = iter[nb] + 1]
               /\ env' = [env EXCEPT
                            ![nb].qubit_op = env[nb].qubit_ops[iter[nb] + 1].op,
                            ![nb].name = env[nb].qubit_ops[iter[nb] + 1].name]
               /\ Advance(nb)
          ELSE /\ iter' = [iter EXCEPT ![nb] = 0]
               /\ env' = env
               /\ pc' = [pc EXCEPT ![nb] = EndOf(Program(nb), pc[nb]) + 1]
    /\ UNCHANGED <<heap, out, log, raised>>

\* the end of a loop body: back to the for
EndFor(nb) ==
    /\ At(nb, "endfor")
    /\ pc' = [pc EXCEPT ![nb] = ForOf(Program(nb), pc[nb])]
    /\ UNCHANGED <<env, heap, iter, out, log, raised>>

\* print("--- name ---"); print(qubit_op.print_operators())
PrintOperators(nb) ==
    /\ At(nb, "print_operators")
    /\ Printed(nb, Line("paulis", env[nb].name, None,
                        print_operators(heap[nb], Self(nb)), Now(nb)))
    /\ Logged(nb) /\ Advance(nb)
    /\ UNCHANGED <<env, heap, iter, raised>>

\* exact_eigensolver = ExactEigensolver(qubit_op, k=1); ret = exact_eigensolver.run()
ExactRun(nb) ==
    /\ At(nb, "exact_run")
    /\ env' = [env EXCEPT ![nb][Stmt(nb).target] =
                 Val(ExactEigensolver_run(heap[nb], Self(nb)), Now(nb))]
    /\ Logged(nb) /\ Advance(nb)
    /\ UNCHANGED <<heap, iter, out, raised>>

\* print('The exact ground state energy ...'.format(ret['energy']))
PrintExact(nb) ==
    /\ At(nb, "print_exact")
    /\ Printed(nb, Line("exact", env[nb].name, env[nb].ret.val, <<>>, env[nb].ret.from))
    /\ Advance(nb)
    /\ UNCHANGED <<env, heap, iter, log, raised>>

\* print('The Hartree Fock Electron Energy is: {}'.format(
\*           molecule.hf_energy - molecule.nuclear_repulsion_energy))
PrintHartreeFock(nb) ==
    /\ At(nb, "print_hf")
    /\ Printed(nb, Line("hf", "", hf_electronic(heap[nb], Self(nb)), <<>>,
                        heap[nb][Self(nb)].born))
    /\ Advance(nb)
    /\ UNCHANGED <<env, heap, iter, log, raised>>

\* newferOp, energy_shift = ferOp.particle_hole_transformation(num_particles=2)
ParticleHoleTransformation(nb) ==
    /\ At(nb, "particle_hole_transformation")
    /\ LET r == particle_hole_transformation(heap[nb], Now(nb), Self(nb), NumParticles)
       IN  /\ heap' = [heap EXCEPT ![nb] = r.heap]
           /\ env' = [env EXCEPT ![nb][Stmt(nb).target] = r.ref,
                                 ![nb].energy_shift = Val(r.shift, Now(nb))]
    /\ Logged(nb) /\ Advance(nb)
    /\ UNCHANGED <<iter, out, raised>>

\* print('Energy shift is: {}'.format(energy_shift))
PrintShift(nb) ==
    /\ At(nb, "print_shift")
    /\ Printed(nb, Line("shift", "", env[nb].energy_shift.val, <<>>,
                        env[nb].energy_shift.from))
    /\ Advance(nb)
    /\ UNCHANGED <<env, heap, iter, log, raised>>

\* print('... {} (with energy_shift)'.format(ret['energy'] - energy_shift))
PrintExactShifted(nb) ==
    /\ At(nb, "print_exact_shifted")
    /\ Printed(nb, Line("exact_shifted", "",
                        Shifted(env[nb].ret.val, env[nb].energy_shift.val), <<>>,
                        env[nb].ret.from))
    /\ Advance(nb)
    /\ UNCHANGED <<env, heap, iter, log, raised>>

\* lbfgs = L_BFGS_B(maxfun=1000, factr=10, iprint=10); var_form = RY(..., 5, ...);
\* vqe_algorithm = VQE(qubit_op, var_form, lbfgs, 'matrix');
\* results = vqe_algorithm.run(quantum_instance)
VQERun(nb) ==
    /\ At(nb, "vqe_run")
    /\ env' = [env EXCEPT ![nb][Stmt(nb).target] =
                 Val(VQE_run(heap[nb], Self(nb)), Now(nb))]
    /\ Logged(nb) /\ Advance(nb)
    /\ UNCHANGED <<heap, iter, out, raised>>

\* a mutation: the shifted energy printed as the minimum
PrintVQEShiftedAsMinimum(nb) ==
    /\ At(nb, "print_vqe")
    /\ Printed(nb, Line("vqe", env[nb].name,
                        Shifted(env[nb].results.val, env[nb].energy_shift.val), <<>>,
                        env[nb].results.from))
    /\ Advance(nb)
    /\ UNCHANGED <<env, heap, iter, log, raised>>

\* print("Minimum value: {}".format(results['eigvals'][0].real)), and
\* print("Ground state energy using {}: {}".format(name, results['eigvals'][0]))
PrintVQE(nb) ==
    /\ At(nb, "print_vqe")
    /\ Printed(nb, Line("vqe", env[nb].name, env[nb].results.val, <<>>,
                        env[nb].results.from))
    /\ Advance(nb)
    /\ UNCHANGED <<env, heap, iter, log, raised>>

\* print("Minimum value: {}".format(results['eigvals'][0].real - energy_shift))
PrintVQEShifted(nb) ==
    /\ At(nb, "print_vqe_shifted")
    /\ Printed(nb, Line("vqe_shifted", "",
                        Shifted(env[nb].results.val, env[nb].energy_shift.val), <<>>,
                        env[nb].results.from))
    /\ Advance(nb)
    /\ UNCHANGED <<env, heap, iter, log, raised>>

\* print("Parameters: {}".format(results['opt_params']))
PrintParams(nb) ==
    /\ At(nb, "print_params")
    /\ Printed(nb, Line("params", "", None, <<>>, env[nb].results.from))
    /\ Advance(nb)
    /\ UNCHANGED <<env, heap, iter, log, raised>>

\* A library call raises (a driver that is not installed, a bad argument, a
\* solver that fails).  Nothing catches it: the statement binds nothing and
\* the run ends there.
Raise(nb) ==
    /\ Running(nb)
    /\ Stmt(nb).op \in LibraryCalls
    /\ raised' = [raised EXCEPT ![nb] = Stmt(nb).op]
    /\ log' = [log EXCEPT ![nb] = Append(log[nb], Call(nb, Self(nb), FALSE))]
    /\ UNCHANGED <<pc, env, heap, iter, out>>

Next ==
    \E nb \in Notebooks :
        \/ DriverRun(nb)
        \/ NewFermionicOperator(nb)
        \/ Mapping(nb)
        \/ Chop(nb)
        \/ ToMatrix(nb)
        \/ BuildList(nb)
        \/ ForNext(nb)
        \/ EndFor(nb)
        \/ PrintOperators(nb)
        \/ ExactRun(nb)
        \/ PrintExact(nb)
        \/ PrintHartreeFock(nb)
        \/ ParticleHoleTransformation(nb)
        \/ PrintShift(nb)
        \/ PrintExactShifted(nb)
        \/ VQERun(nb)
        \/ PrintVQE(nb)
        \/ PrintVQEShifted(nb)
        \/ PrintParams(nb)
        \/ Raise(nb)

Spec == Init /\ [][Next]_vars

---------------------------------------------------------------------------
(* Reading the history                                                     *)

\* agreement of two printed floats: 10^-12
RoundingTol == N(1, 0, 100000)

\* agreement to the six decimals of -1.857275: 5 * 10^-7
SixDecimals == N(1, 50, 0)

\* agreement of the fixed-point spectrum with a printed float: 10^-6
SpectrumTol == N(1, 100, 0)

\* the largest gap between VQE and the exact solver: 2 * 10^-4
VQETol == N(1, 20000, 0)

\* agreement to nine decimals: 10^-9
NineDecimals == N(1, 0, 100000000)

\* the ground-state energy the specification quotes: -1.857275
QuotedEnergy == N(-1, 185727500, 0)

Lines(nb, kind) == {i \in 1..Len(out[nb]) : out[nb][i].kind = kind}

Calls(nb, call) == {i \in 1..Len(log[nb]) : log[nb][i].call = call}

Done(nb) == pc[nb] > Len(Program(nb))

\* the call a printed line's value came from
Source(nb, i) == log[nb][out[nb][i].from]

\* the printed exact energies of the operator the line i was computed on
ExactOfSameOperator(nb, i) ==
    {j \in Lines(nb, "exact") : Source(nb, j).self = Source(nb, i).self}

\* the Pauli lists printed for the operator the line i was computed on
PaulisOfSameOperator(nb, i) ==
    {j \in Lines(nb, "paulis") : Source(nb, j).self = Source(nb, i).self}

Names == <<"jordan wigner", "parity", "bravyi-kitaev">>

---------------------------------------------------------------------------
(* Claims                                                                  *)

\* C1: in QubitMappings the exact ground-state energies printed for the
\* Jordan-Wigner, parity and Bravyi-Kitaev operators of the one
\* FermionicOperator agree pairwise, each is -1.857275 to six decimals, and
\* each is the lowest eigenvalue of the Pauli list printed for its operator.
C1_ExactEnergiesAgree ==
    /\ \A i, j \in Lines("QM", "exact") :
          Within(out["QM"][i].value, out["QM"][j].value, RoundingTol)
    /\ \A i \in Lines("QM", "exact") :
          /\ Within(out["QM"][i].value, QuotedEnergy, SixDecimals)
          /\ Source("QM", i).obj.src = env["QM"].ferOp
          /\ PaulisOfSameOperator("QM", i) # {}
          /\ \A j \in PaulisOfSameOperator("QM", i) :
                Within(Unfix(LowestEigenvalue(out["QM"][j].paulis)),
                       out["QM"][i].value, SpectrumTol)

\* C1 witness: all three mappings have been solved and their energies printed
C1_Witness ==
    {out["QM"][i].name : i \in Lines("QM", "exact")}
        = {"jordan wigner", "parity", "bravyi-kitaev"}

\* C2: in ParticleHoleTransformation the exact energy of the transformed
\* operator minus energy_shift, as printed, equals the exact energy printed
\* for the untransformed operator.
C2_ShiftRestoresEnergy ==
    \A i \in Lines("PH", "exact_shifted") :
        /\ Source("PH", i).obj.ph
        /\ Source("PH", i).obj.map_type = "JORDAN_WIGNER"
        /\ \E j \in Lines("PH", "exact") : ~Source("PH", j).obj.ph
        /\ \A j \in Lines("PH", "exact") :
              ~Source("PH", j).obj.ph =>
                 /\ Source("PH", j).obj.map_type = "JORDAN_WIGNER"
                 /\ Within(out["PH"][i].value, out["PH"][j].value, RoundingTol)

\* C2 witness: the shifted energy has been printed
C2_Witness == Lines("PH", "exact_shifted") # {}

\* C3 as claimed: energy_shift is the Hartree-Fock electronic energy
\* molecule.hf_energy - molecule.nuclear_repulsion_energy.
C3_ShiftIsHartreeFock ==
    \A i \in Lines("PH", "shift") : \A j \in Lines("PH", "hf") :
        Within(out["PH"][i].value, out["PH"][j].value, RoundingTol)

\* C3 amended: energy_shift is the negation of the Hartree-Fock electronic
\* energy: the energy removed, -energy_shift, is the Hartree-Fock electronic
\* energy.
C3_ShiftIsMinusHartreeFock ==
    \A i \in Lines("PH", "shift") :
        /\ Lines("PH", "hf") # {}
        /\ \A j \in Lines("PH", "hf") :
              Within(NumNeg(out["PH"][i].value), out["PH"][j].value, RoundingTol)

\* C3 witness: the shift and the Hartree-Fock electronic energy are printed
C3_Witness == Lines("PH", "shift") # {} /\ Lines("PH", "hf") # {}

\* C4 as claimed: every VQE minimum equals the exact energy of its operator
\* (to the six decimals the energies are quoted with).
C4_VQEEqualsExact ==
    \A nb \in Notebooks : \A i \in Lines(nb, "vqe") :
        \A j \in ExactOfSameOperator(nb, i) :
            Within(out[nb][i].value, out[nb][j].value, SixDecimals)

\* C4 amended: every VQE minimum is within 2 * 10^-4 of the exact energy of
\* its operator; for the particle-hole operator and the Bravyi-Kitaev
\* operator it agrees to nine decimals.
C4_VQENearExact ==
    \A nb \in Notebooks : \A i \in Lines(nb, "vqe") :
        /\ ExactOfSameOperator(nb, i) # {}
        /\ \A j \in ExactOfSameOperator(nb, i) :
              /\ Within(out[nb][i].value, out[nb][j].value, VQETol)
              /\ (nb = "PH" \/ out[nb][i].name = "bravyi-kitaev") =>
                    Within(out[nb][i].value, out[nb][j].value, NineDecimals)

\* C4 witness: VQE has run on the particle-hole operator and on all three
\* operators of QubitMappings
C4_Witness ==
    /\ Lines("PH", "vqe") # {}
    /\ Cardinality(Lines("QM", "vqe")) = 3

\* C5 as claimed: no printed Pauli term has a coefficient below the chop
\* threshold.
C5_NoNegligibleTerm ==
    \A nb \in Notebooks : \A i \in Lines(nb, "paulis") :
        \A k \in 1..Len(out[nb][i].paulis) :
            NumLeq(ChopThreshold, NumAbs(out[nb][i].paulis[k].coeff))

Kernel(nb) == <<pc[nb], env[nb], heap[nb], iter[nb], out[nb], log[nb], raised[nb]>>

\* the same, one step later
KernelNext(nb) ==
    <<pc'[nb], env'[nb], heap'[nb], iter'[nb], out'[nb], log'[nb], raised'[nb]>>

\* C7: a failed library call surfaces, ends the run and is never retried:
\* the failed call is the last call made, the statement that made it bound
\* and printed nothing, no statement is executed twice in the same loop
\* round, and once a call has raised nothing of that notebook changes.
C7_NoRetryNoRecovery ==
    /\ [](\A nb \in Notebooks :
            /\ \A i \in 1..Len(log[nb]) :
                  ~log[nb][i].ok => (i = Len(log[nb]) /\ raised[nb] = log[nb][i].call)
            /\ \A i, j \in 1..Len(log[nb]) :
                  (log[nb][i].pc = log[nb][j].pc /\ log[nb][i].iter = log[nb][j].iter)
                     => i = j
            /\ raised[nb] # "" =>
                  /\ ~Done(nb)
                  /\ Stmt(nb).op = raised[nb]
                  /\ ~log[nb][Len(log[nb])].ok
                  /\ \A i \in 1..Len(out[nb]) : out[nb][i].from < Len(log[nb])
                  /\ (Stmt(nb).target # "" /\ Stmt(nb).op \notin {"exact_run", "vqe_run"})
                        => env[nb][Stmt(nb).target] = 0)
    /\ [][\A nb \in Notebooks : raised[nb] # "" => KernelNext(nb) = Kernel(nb)]_vars

\* C7 witness: the exact solver has raised on the transformed operator, after
\* the first energy was printed and before any energy in the PH basis
C7_Witness ==
    /\ raised["PH"] = "exact_run"
    /\ env["PH"].newqubitOp_jw # 0
    /\ Cardinality(Lines("PH", "exact")) = 1

\* the calls that run a solver
SolverCalls == {"exact_run", "vqe_run"}

\* the lines that print an energy
EnergyKinds == {"exact", "exact_shifted", "vqe", "vqe_shifted", "hf", "shift"}

\* the lines that print a ground-state energy
GroundStateKinds == {"exact", "exact_shifted", "vqe", "vqe_shifted"}

\* the driver is run once, before everything else
DriverOnce(nb) ==
    /\ Cardinality(Calls(nb, "driver_run")) <= 1
    /\ Calls(nb, "driver_run") \subseteq {1}
    /\ Done(nb) => \E i \in Calls(nb, "driver_run") : log[nb][i].ok

\* Every solver run is given an operator made earlier by mapping a fermionic
\* operator that was built earlier (by FermionicOperator, or by the
\* particle-hole transformation of one that was) from the integrals of the
\* molecule the driver's one run returned.
SolverLineage(nb) ==
    \A i \in 1..Len(log[nb]) : log[nb][i].call \in SolverCalls =>
        LET op  == log[nb][i].obj
            fer == heap[nb][op.src]
            mol == heap[nb][fer.src]
        IN  /\ op.type = "Operator"
            /\ op.born < i
            /\ log[nb][op.born].call = "mapping" /\ log[nb][op.born].ok
            /\ log[nb][op.born].self = op.src
            /\ fer.type = "FermionicOperator"
            /\ fer.born < op.born
            /\ log[nb][fer.born].ok
            /\ IF fer.ph
                  THEN /\ log[nb][fer.born].call = "particle_hole_transformation"
                       /\ log[nb][fer.born].obj.type = "FermionicOperator"
                       /\ log[nb][log[nb][fer.born].obj.born].call = "FermionicOperator"
                       /\ log[nb][fer.born].obj.born < fer.born
                       /\ log[nb][fer.born].obj.src = fer.src
                  ELSE log[nb][fer.born].call = "FermionicOperator"
            /\ mol.type = "QMolecule"
            /\ mol.born < fer.born
            /\ log[nb][mol.born].call = "driver_run" /\ log[nb][mol.born].ok

\* the printed lines of the kinds given show the result of a solver run that
\* had returned
FromSolver(nb, kinds) ==
    \A i \in 1..Len(out[nb]) : out[nb][i].kind \in kinds =>
        /\ out[nb][i].from \in 1..Len(log[nb])
        /\ Source(nb, i).call \in SolverCalls
        /\ Source(nb, i).ok
        /\ out[nb][i].value # None
        /\ out[nb][i].kind \in {"exact", "exact_shifted"} => Source(nb, i).call = "exact_run"
        /\ out[nb][i].kind \in {"vqe", "vqe_shifted"} => Source(nb, i).call = "vqe_run"

\* C8 as claimed: the driver is run once, every solver run has the lineage
\* integrals -> fermionic operator -> (particle-hole) -> mapping, and every
\* printed energy comes from a solver run that has completed.
C8_EveryEnergyFromSolver ==
    \A nb \in Notebooks :
        DriverOnce(nb) /\ SolverLineage(nb) /\ FromSolver(nb, EnergyKinds)

\* C8 amended: the same, for every printed ground-state energy; the
\* Hartree-Fock electronic energy is printed from the driver's molecule and
\* the energy shift from the particle-hole transformation, not from a solver.
C8_PipelineOrder ==
    \A nb \in Notebooks :
        /\ DriverOnce(nb) /\ SolverLineage(nb) /\ FromSolver(nb, GroundStateKinds)
        /\ \A i \in Lines(nb, "hf") :
              Source(nb, i).call = "driver_run" /\ Source(nb, i).ok
        /\ \A i \in Lines(nb, "shift") :
              Source(nb, i).call = "particle_hole_transformation" /\ Source(nb, i).ok

\* C8 witness: both notebooks have run to their end
C8_Witness == Done("PH") /\ Done("QM")

\* the names printed by the lines of a kind, in the order printed
RECURSIVE NamesPrinted(_, _, _)
NamesPrinted(nb, kind, k) ==
    IF k = 0 THEN <<>>
    ELSE IF out[nb][k].kind = kind
            THEN Append(NamesPrinted(nb, kind, k - 1), out[nb][k].name)
            ELSE NamesPrinted(nb, kind, k - 1)

IsPrefix(s, t) == Len(s) <= Len(t) /\ \A k \in 1..Len(s) : s[k] = t[k]

\* C9: in QubitMappings each loop takes the operators once, in the order
\* jordan wigner, parity, bravyi-kitaev; all three exact energies are printed
\* before any VQE energy; and each VQE run is given the very object the exact
\* loop solved, converted by to_matrix() and chopped at 10**-10, which is one
\* of the three operators mapped before the loops.
C9_LoopsShareOperators ==
    /\ IsPrefix(NamesPrinted("QM", "exact", Len(out["QM"])), Names)
    /\ IsPrefix(NamesPrinted("QM", "paulis", Len(out["QM"])), Names)
    /\ IsPrefix(NamesPrinted("QM", "vqe", Len(out["QM"])), Names)
    /\ Done("QM") => /\ NamesPrinted("QM", "exact", Len(out["QM"])) = Names
                     /\ NamesPrinted("QM", "vqe", Len(out["QM"])) = Names
    /\ \A i \in Lines("QM", "vqe") :
          /\ Cardinality(Lines("QM", "exact")) = 3
          /\ \A j \in Lines("QM", "exact") : j < i
          /\ \E j \in ExactOfSameOperator("QM", i) : out["QM"][j].name = out["QM"][i].name
    /\ \A i \in Calls("QM", "vqe_run") :
          /\ log["QM"][i].obj.matrix
          /\ log["QM"][i].obj.chopped = ChopThreshold
          /\ log["QM"][i].obj = heap["QM"][log["QM"][i].self]
          /\ log["QM"][i].self = env["QM"].qubit_ops[log["QM"][i].iter].op
          /\ log["QM"][log["QM"][i].obj.born].pc < Min({k \in 1..Len(ProgramQM) : ProgramQM[k].op = "for"})
          /\ \E j \in Calls("QM", "exact_run") :
                /\ j < i
                /\ log["QM"][j].ok
                /\ log["QM"][j].self = log["QM"][i].self
                /\ log["QM"][j].iter = log["QM"][i].iter
                /\ log["QM"][j].obj = log["QM"][i].obj

\* C9 witness: QubitMappings has run to its end
C9_Witness == Done("QM") /\ Cardinality(Lines("QM", "vqe")) = 3

\* C10: every VQE minimum printed is at or above the exact energy printed for
\* the same operator; the exact energy of the untransformed operator is at
\* or below the Hartree-Fock electronic energy, and the exact energy in the
\* particle-hole basis at or below zero.
C10_VariationalBound ==
    /\ \A nb \in Notebooks : \A i \in Lines(nb, "vqe") :
          /\ ExactOfSameOperator(nb, i) # {}
          /\ \A j \in ExactOfSameOperator(nb, i) :
                NumLeq(out[nb][j].value, out[nb][i].value)
    /\ \A j \in Lines("PH", "exact") :
          IF Source("PH", j).obj.ph
             THEN NumLeq(out["PH"][j].value, Zero)
             ELSE \A k \in Lines("PH", "hf") :
                     NumLeq(out["PH"][j].value, out["PH"][k].value)

\* C10 witness: every VQE minimum and the Hartree-Fock energy are printed
C10_Witness ==
    /\ Lines("PH", "vqe") # {}
    /\ Lines("PH", "hf") # {}
    /\ Cardinality(Lines("PH", "exact")) = 2
    /\ Cardinality(Lines("QM", "vqe")) = 3

=============================================================================
